---- MODULE Spec2Model ----
(***************************************************************************)
(* The GraphQL query layer of src/routes/graphql/index.ts: the schema      *)
(* (types, nullability, arguments), the field resolvers and the POST /     *)
(* handler.  A request is a query document; the handler validates it       *)
(* against the schema and executes it, each resolver issuing one call on   *)
(* the persistence handle; the calls of all requests in flight return in   *)
(* any order.  Execution follows the GraphQL specification's field-error   *)
(* rules (a failing non-null field nulls its nearest nullable ancestor).   *)
(***************************************************************************)
EXTENDS Integers, Sequences, FiniteSets, TLC

(* ------------------------------ bounds -------------------------------- *)
MaxUsers == 2      \* users a store holds
MaxPosts == 2      \* posts a store holds
MaxEdges == 2      \* subscription edges a store holds
MaxRequests == 2   \* requests in flight together
MaxFaults == 1     \* persistence calls of one request that reject

(* Identifier tokens: well-formed UUIDs, one table per entity. *)
UserTokens == <<"u1", "u2", "u3", "u4">>
PostTokens == <<"p1", "p2", "p3", "p4">>
ProfileTokens == <<"f1", "f2", "f3", "f4">>
MemberTypeIdValues == <<"BASIC", "BUSINESS">>
AllTokens == UserTokens \o PostTokens \o ProfileTokens \o MemberTypeIdValues
Idx == <<"0", "1", "2", "3", "4", "5">>

Undefined == "undefined"
NullLit == "null"

Range(s) == {s[i] : i \in 1..Len(s)}
SeqOf(S) == SelectSeq(AllTokens, LAMBDA t : t \in S)
IsPrefix(p, q) == Len(p) <= Len(q) /\ SubSeq(q, 1, Len(p)) = p

(* store: the rows the prisma handle reads.  Per request in flight (slot): *)
(* phase, the handler's position; doc, req.body.query; pending, the       *)
(* resolvers awaiting their prisma call; resolved, what the resolvers of  *)
(* this execution have yielded; resp, the result graphql() resolves with. *)
VARIABLES store, phase, doc, pending, resolved, resp
vars == <<store, phase, doc, pending, resolved, resp>>

Slots == 1..MaxRequests

(* ------------------------------ schema -------------------------------- *)
Named(n) == [k |-> "named", n |-> n]
GraphQLList(t) == [k |-> "list", of |-> t]
GraphQLNonNull(t) == [k |-> "nonnull", of |-> t]
IsNonNull(t) == t.k = "nonnull"
Nullable(t) == IF t.k = "nonnull" THEN t.of ELSE t
IsList(t) == Nullable(t).k = "list"
ItemType(t) == Nullable(t).of
NamedOf(t) == IF IsList(t) THEN Nullable(ItemType(t)).n ELSE Nullable(t).n

FieldDef(type, arg, resolve) == [type |-> type, arg |-> arg, resolve |-> resolve]
Leaf(type) == FieldDef(type, <<>>, "")

MemberTypeId == Named("MemberTypeId")
UUIDType == Named("UUID")

MemberType ==
  [id |-> Leaf(GraphQLNonNull(MemberTypeId)),
   discount |-> Leaf(GraphQLNonNull(Named("Float"))),
   postsLimitPerMonth |-> Leaf(GraphQLNonNull(Named("Int")))]

MemberTypeListType == GraphQLList(Named("memberType"))

Post ==
  [id |-> Leaf(GraphQLNonNull(UUIDType)),
   title |-> Leaf(GraphQLNonNull(Named("String"))),
   content |-> Leaf(GraphQLNonNull(Named("String")))]

Posts == GraphQLList(GraphQLNonNull(Named("Post")))

(* Variant: the field declared without GraphQLNonNull. *)
ProfileMemberTypeNullable == Named("memberType")

ProfileMemberTypeType == GraphQLNonNull(Named("memberType"))

Profile ==
  [id |-> Leaf(GraphQLNonNull(UUIDType)),
   isMale |-> Leaf(GraphQLNonNull(Named("Boolean"))),
   yearOfBirth |-> Leaf(GraphQLNonNull(Named("Int"))),
   memberType |-> FieldDef(ProfileMemberTypeType, <<>>, "Profile.memberType")]

ProfileList == GraphQLList(Named("Profile"))

User ==
  [id |-> Leaf(GraphQLNonNull(UUIDType)),
   name |-> Leaf(GraphQLNonNull(Named("String"))),
   balance |-> Leaf(GraphQLNonNull(Named("Float"))),
   profile |-> FieldDef(Named("Profile"), <<>>, "User.profile"),
   posts |-> FieldDef(GraphQLNonNull(Posts), <<>>, "User.posts"),
   userSubscribedTo |->
     FieldDef(GraphQLNonNull(GraphQLList(Named("user"))), <<>>, "User.userSubscribedTo"),
   subscribedToUser |->
     FieldDef(GraphQLNonNull(GraphQLList(Named("user"))), <<>>, "User.subscribedToUser")]

UserList == GraphQLList(Named("user"))

MemberTypeArgType == MemberTypeId

RootQuery ==
  [memberTypes |-> FieldDef(MemberTypeListType, <<>>, "RootQuery.memberTypes"),
   memberType |-> FieldDef(Named("memberType"), <<MemberTypeArgType>>, "RootQuery.memberType"),
   users |-> FieldDef(UserList, <<>>, "RootQuery.users"),
   user |-> FieldDef(Named("user"), <<GraphQLNonNull(UUIDType)>>, "RootQuery.user"),
   posts |-> FieldDef(Posts, <<>>, "RootQuery.posts"),
   post |-> FieldDef(Named("Post"), <<GraphQLNonNull(UUIDType)>>, "RootQuery.post"),
   profiles |-> FieldDef(ProfileList, <<>>, "RootQuery.profiles"),
   profile |-> FieldDef(Named("Profile"), <<GraphQLNonNull(UUIDType)>>, "RootQuery.profile")]

ObjectTypes == {"RootQuery", "memberType", "Post", "Profile", "user"}

FieldsOf(t) ==
  CASE t = "RootQuery" -> RootQuery
    [] t = "memberType" -> MemberType
    [] t = "Post" -> Post
    [] t = "Profile" -> Profile
    [] t = "user" -> User

schema == [query |-> "RootQuery"]

(* --------------------------- persistence ------------------------------ *)
(* The seeded reference data and the relation fields of the persisted     *)
(* User model, as the resolvers' filters name them.                       *)
MemberTypes == {[id |-> MemberTypeIdValues[i]] : i \in 1..Len(MemberTypeIdValues)}

SubscribedToUserRel(u) == {e \in store.subs : e.authorId = u.id}
UserSubscribedToRel(u) == {e \in store.subs : e.subscriberId = u.id}

Table(model) ==
  CASE model = "user" -> store.users
    [] model = "post" -> store.posts
    [] model = "profile" -> store.profiles
    [] model = "memberType" -> MemberTypes

Call(model, op, key, val) == [model |-> model, op |-> op, key |-> key, val |-> val]
NoCall == Call("", "none", "", "")

Where(call, rec) ==
  CASE call.key = "" -> TRUE
    [] call.key = "id" -> rec.id = call.val
    [] call.key = "userId" -> rec.userId = call.val
    [] call.key = "authorId" -> rec.authorId = call.val
    [] call.key = "subscribedToUser.some.subscriberId" ->
         \E e \in SubscribedToUserRel(rec) : e.subscriberId = call.val
    [] call.key = "userSubscribedTo.some.authorId" ->
         \E e \in UserSubscribedToRel(rec) : e.authorId = call.val

Rows(call) ==
  LET hit == {rec \in Table(call.model) : Where(call, rec)}
      at(id) == CHOOSE rec \in hit : rec.id = id
      ids == SeqOf({rec.id : rec \in hit})
  IN [i \in 1..Len(ids) |-> at(ids[i])]

(* The outcome of an awaited resolver: the rows it yields (null: it yields *)
(* null rather than a row or a list), or a rejection.                     *)
Ok(recs, null) == [st |-> "ok", recs |-> recs, null |-> null]
Rejected == [st |-> "err", recs |-> <<>>, null |-> FALSE]

(* findUnique needs a value for its unique key: without one (undefined or *)
(* null) the client rejects the call; a miss resolves with null.          *)
findUnique(call) ==
  IF call.val \in {Undefined, NullLit}
    THEN Rejected
    ELSE Ok(Rows(call), Rows(call) = <<>>)

findMany(call) == Ok(Rows(call), FALSE)

Settle(call) ==
  CASE call.op = "findUnique" -> findUnique(call)
    [] call.op = "findMany" -> findMany(call)
    [] call.op = "none" -> Ok(<<>>, TRUE)

(* ----------------------------- resolvers ------------------------------ *)
Truthy(v) == v # Undefined /\ v # NullLit /\ v # ""
ArgId(args) == IF args = <<>> THEN Undefined ELSE args[1]
RootValue == [id |-> Undefined]

ProfileMemberTypeResolve(parent, args) ==
  Call("memberType", "findUnique", "id", parent.memberTypeId)

UserProfileResolve(parent, args) ==
  Call("profile", "findUnique", "userId", parent.id)

(* Variant: the guard on parent.id inverted. *)
UserPostsResolveInverted(parent, args) ==
  IF ~Truthy(parent.id)
    THEN Call("post", "findMany", "authorId", parent.id)
    ELSE NoCall

UserPostsResolve(parent, args) ==
  IF Truthy(parent.id)
    THEN Call("post", "findMany", "authorId", parent.id)
    ELSE NoCall

(* Variant: the filter of the opposite field. *)
UserSubscribedToResolveSwapped(parent, args) ==
  Call("user", "findMany", "userSubscribedTo.some.authorId", parent.id)

UserSubscribedToResolve(parent, args) ==
  Call("user", "findMany", "subscribedToUser.some.subscriberId", parent.id)

(* Variant: the filter copied from userSubscribedTo. *)
SubscribedToUserResolveCopied(parent, args) ==
  Call("user", "findMany", "subscribedToUser.some.subscriberId", parent.id)

SubscribedToUserResolve(parent, args) ==
  Call("user", "findMany", "userSubscribedTo.some.authorId", parent.id)

RootMemberTypesResolve(parent, args) == Call("memberType", "findMany", "", "")
RootMemberTypeResolve(parent, args) == Call("memberType", "findUnique", "id", ArgId(args))
RootUsersResolve(parent, args) == Call("user", "findMany", "", "")
RootUserResolve(parent, args) == Call("user", "findUnique", "id", ArgId(args))
RootPostsResolve(parent, args) == Call("post", "findMany", "", "")
RootPostResolve(parent, args) == Call("post", "findUnique", "id", ArgId(args))
RootProfilesResolve(parent, args) == Call("profile", "findMany", "", "")
(* Variant: the profile looked up by its owner instead of its id. *)
RootProfileResolveByUser(parent, args) ==
  Call("profile", "findUnique", "userId", ArgId(args))
RootProfileResolve(parent, args) == Call("profile", "findUnique", "id", ArgId(args))

Resolve(name, parent, args) ==
  CASE name = "Profile.memberType" -> ProfileMemberTypeResolve(parent, args)
    [] name = "User.profile" -> UserProfileResolve(parent, args)
    [] name = "User.posts" -> UserPostsResolve(parent, args)
    [] name = "User.userSubscribedTo" -> UserSubscribedToResolve(parent, args)
    [] name = "User.subscribedToUser" -> SubscribedToUserResolve(parent, args)
    [] name = "RootQuery.memberTypes" -> RootMemberTypesResolve(parent, args)
    [] name = "RootQuery.memberType" -> RootMemberTypeResolve(parent, args)
    [] name = "RootQuery.users" -> RootUsersResolve(parent, args)
    [] name = "RootQuery.user" -> RootUserResolve(parent, args)
    [] name = "RootQuery.posts" -> RootPostsResolve(parent, args)
    [] name = "RootQuery.post" -> RootPostResolve(parent, args)
    [] name = "RootQuery.profiles" -> RootProfilesResolve(parent, args)
    [] name = "RootQuery.profile" -> RootProfileResolve(parent, args)

(* ----------------------------- documents ------------------------------ *)
(* A field node of a query document: its name, its id argument (<<>>      *)
(* when the query gives none) and its selection set.                      *)
Field(name, args, sel) == [name |-> name, args |-> args, sel |-> sel]
ID == Field("id", <<>>, <<>>)

(* -------------------- validation (before execution) ------------------- *)
(* Every id of the catalogue is a well-formed UUID; a MemberTypeId must be *)
(* one of the enum's values.                                              *)
ValidLiteral(t, v) ==
  IF t = "MemberTypeId" THEN v \in Range(MemberTypeIdValues) ELSE TRUE

ValidArgs(fd, args) ==
  IF fd.arg = <<>>
    THEN args = <<>>
    ELSE /\ IsNonNull(fd.arg[1]) => (args # <<>> /\ args[1] # NullLit)
         /\ (args # <<>> /\ args[1] # NullLit) => ValidLiteral(Nullable(fd.arg[1]).n, args[1])

RECURSIVE Invalid(_, _, _)
Invalid(ptype, sel, path) ==
  UNION { LET f == sel[i]
              p == path \o <<f.name>>
          IN IF f.name \notin DOMAIN FieldsOf(ptype)
               THEN {p}
               ELSE LET fd == FieldsOf(ptype)[f.name]
                        t == NamedOf(fd.type)
                    IN (IF ValidArgs(fd, f.args) THEN {} ELSE {p})
                       \cup (IF t \in ObjectTypes
                               THEN (IF f.sel = <<>> THEN {p} ELSE Invalid(t, f.sel, p))
                               ELSE (IF f.sel = <<>> THEN {} ELSE {p}))
        : i \in 1..Len(sel) }

validate(d) == Invalid(schema.query, d, <<>>)

(* ----------------------------- execution ------------------------------ *)
(* Every resolver invoked runs to the end (no sibling is cancelled), and  *)
(* every field error raised is listed once, at the field that raised it.  *)
Known(ptype, sel) ==
  SelectSeq(sel, LAMBDA f : f.name \in DOMAIN FieldsOf(ptype))

Calls(call) == IF call.op = "none" THEN 0 ELSE 1

(* The resolvers invoked for one object of type ptype: one task per       *)
(* selected field that declares a resolver, its call already issued.      *)
ExecuteFields(ptype, sel, parent, path) ==
  { LET f == Known(ptype, sel)[i]
        call == Resolve(FieldsOf(ptype)[f.name].resolve, parent, f.args)
    IN [path |-> path \o <<f.name>>, ptype |-> ptype, f |-> f,
        call |-> call, tries |-> Calls(call)]
    : i \in {j \in 1..Len(Known(ptype, sel)) :
               FieldsOf(ptype)[Known(ptype, sel)[j].name].resolve # ""} }

TaskType(t) == FieldsOf(t.ptype)[t.f.name].type

(* Completing the value of task t: the resolvers of the objects in it. *)
CompleteValue(t, out) ==
  IF out.st # "ok" THEN {}
  ELSE UNION { ExecuteFields(NamedOf(TaskType(t)), t.f.sel, out.recs[i],
                             IF IsList(TaskType(t)) THEN t.path \o <<Idx[i]>> ELSE t.path)
               : i \in 1..Len(out.recs) }

Entry(t, out, fault) ==
  [path |-> t.path, st |-> out.st, recs |-> out.recs, null |-> out.null,
   fault |-> fault, tries |-> t.tries]

EntryAt(res, path) == CHOOSE e \in res : e.path = path

(* ------------------------ response assembly --------------------------- *)
Nulled(path, type, errs) ==
  [path |-> path, data |-> IF IsNonNull(type) THEN {} ELSE {<<path, NullLit>>},
   errs |-> errs, bubble |-> IsNonNull(type)]

RECURSIVE CompleteField(_, _, _, _, _)
RECURSIVE CompleteObject(_, _, _, _, _)
CompleteObject(obj, sel, path, rec, res) ==
  LET fs == Known(obj, sel)
      cs == {CompleteField(obj, fs[i], path \o <<fs[i].name>>, rec, res) : i \in 1..Len(fs)}
      bubble == \E c \in cs : c.bubble
  IN [path |-> path,
      data |-> IF bubble THEN {} ELSE {<<path, "obj">>} \cup UNION {c.data : c \in cs},
      errs |-> UNION {c.errs : c \in cs},
      bubble |-> bubble]

CompleteField(ptype, f, path, parent, res) ==
  LET fd == FieldsOf(ptype)[f.name]
      type == fd.type
  IN IF fd.resolve = ""
       THEN IF f.name \in DOMAIN parent
              THEN [path |-> path, data |-> {<<path, parent[f.name]>>},
                    errs |-> {}, bubble |-> FALSE]
              ELSE Nulled(path, type, {path})
     ELSE LET e == EntryAt(res, path) IN
       IF e.st = "err" THEN Nulled(path, type, {path})
       ELSE IF e.null THEN Nulled(path, type, IF IsNonNull(type) THEN {path} ELSE {})
       ELSE IF IsList(type)
         THEN LET it == {CompleteObject(NamedOf(type), f.sel, path \o <<Idx[i]>>, e.recs[i], res)
                          : i \in 1..Len(e.recs)}
                  errs == UNION {c.errs : c \in it}
              IN IF IsNonNull(ItemType(type)) /\ \E c \in it : c.bubble
                   THEN Nulled(path, type, errs)
                   ELSE [path |-> path,
                         data |-> {<<path, "list">>} \cup
                                  UNION {IF c.bubble THEN {<<c.path, NullLit>>} ELSE c.data
                                         : c \in it},
                         errs |-> errs, bubble |-> FALSE]
         ELSE LET o == CompleteObject(NamedOf(type), f.sel, path, e.recs[1], res)
              IN IF o.bubble THEN Nulled(path, type, o.errs) ELSE o

FieldErrors(paths) == {[kind |-> "field", path |-> p] : p \in paths}
ValidationErrors(paths) == {[kind |-> "validation", path |-> p] : p \in paths}

NoResp == [hasData |-> FALSE, data |-> {}, errors |-> {}]

buildResponse(d, res) ==
  LET o == CompleteObject(schema.query, d, <<>>, RootValue, res)
  IN [hasData |-> TRUE,
      data |-> IF o.bubble THEN {<< <<>>, NullLit >>} ELSE o.data,
      errors |-> FieldErrors(o.errs)]

(* Variant: execution without validation. *)
graphqlUnvalidated(d) ==
  [phase |-> "executing",
   pending |-> ExecuteFields(schema.query, d, RootValue, <<>>),
   resp |-> NoResp]

(* graphql(): validate, then execute; what the handler starts with. *)
graphql(d) ==
  IF validate(d) # {}
    THEN [phase |-> "done", pending |-> {},
          resp |-> [hasData |-> FALSE, data |-> {}, errors |-> ValidationErrors(validate(d))]]
    ELSE [phase |-> "executing",
          pending |-> ExecuteFields(schema.query, d, RootValue, <<>>),
          resp |-> NoResp]

(* ------------------------------ stores -------------------------------- *)
UsersOf(n) == {[id |-> UserTokens[i]] : i \in 1..n}

ProfilesOf(P) ==
  {[id |-> ProfileTokens[i], userId |-> UserTokens[i],
    memberTypeId |-> MemberTypeIdValues[((i - 1) % Len(MemberTypeIdValues)) + 1]] : i \in P}

PostsOf(a) == {[id |-> PostTokens[j], authorId |-> UserTokens[a[j]]] : j \in DOMAIN a}

SubsOf(E) == {[subscriberId |-> UserTokens[e[1]], authorId |-> UserTokens[e[2]]] : e \in E}

(* Post ids carry no meaning: authors are assigned in nondecreasing order. *)
Authorships(n) ==
  UNION { {a \in [1..k -> 1..n] : \A j \in 1..k : j < k => a[j] <= a[j + 1]}
          : k \in 0..MaxPosts }

MkStore(n, P, a, E) ==
  [users |-> UsersOf(n), profiles |-> ProfilesOf(P), posts |-> PostsOf(a), subs |-> SubsOf(E)]

(* Stores without subscriptions, any profiles and posts. *)
ContentStores ==
  {MkStore(x[1], x[2], x[3], {}) :
     x \in UNION {{<<n, P, a>> : P \in SUBSET (1..n), a \in Authorships(n)} : n \in 0..MaxUsers}}

(* Stores with subscription edges, the first user holding every post. *)
SubscriptionStores ==
  {MkStore(x[1], {}, [j \in 1..MaxPosts |-> x[2]], x[3]) :
     x \in UNION {{<<n, u, E>> : u \in {1},
                    E \in {F \in SUBSET ((1..n) \X (1..n)) :
                             F # {} /\ Cardinality(F) <= MaxEdges}}
                  : n \in 1..MaxUsers}}

Stores == ContentStores \cup SubscriptionStores

(* ----------------------------- catalogue ------------------------------ *)
IdArgs(tokens, n) == {<<>>, <<NullLit>>} \cup {<<tokens[i]>> : i \in 1..n}

PostsSel == Field("posts", <<>>, <<ID>>)
MemberTypeSel == Field("memberType", <<>>, <<ID>>)

DocUser(a) == <<Field("user", a, <<ID, PostsSel>>)>>
DocPost(a) == <<Field("post", a, <<ID>>)>>
DocProfile(a) == <<Field("profile", a, <<ID, MemberTypeSel>>)>>
DocMemberType(a) == <<Field("memberType", a, <<ID>>)>>
DocUnknown == <<Field("nonExistentField", <<>>, <<>>)>>
DocUnknownNested == <<Field("users", <<>>, <<ID, Field("nonExistentField", <<>>, <<>>)>>)>>
DocUsersProfile == <<Field("users", <<>>, <<ID, Field("profile", <<>>, <<ID>>)>>)>>
DocUsersMember ==
  <<Field("users", <<>>, <<ID, Field("profile", <<>>, <<ID, MemberTypeSel>>)>>),
    Field("memberTypes", <<>>, <<ID>>)>>
DocUsersPosts == <<Field("users", <<>>, <<ID, PostsSel>>)>>
DocSubs ==
  <<Field("users", <<>>,
          <<ID, Field("userSubscribedTo", <<>>, <<ID>>),
                Field("subscribedToUser", <<>>, <<ID>>)>>)>>
DocUserSubs(a) ==
  <<Field("user", a,
          <<ID, Field("userSubscribedTo", <<>>,
                      <<ID, Field("subscribedToUser", <<>>, <<ID, PostsSel>>)>>)>>)>>
DocPlural(name) == <<Field(name, <<>>, <<ID>>)>>

Docs ==
  {DocUser(a) : a \in IdArgs(UserTokens, MaxUsers)}
  \cup {DocPost(a) : a \in IdArgs(PostTokens, MaxPosts)}
  \cup {DocProfile(a) : a \in IdArgs(ProfileTokens, MaxUsers)}
  \cup {DocMemberType(a) : a \in IdArgs(MemberTypeIdValues, Len(MemberTypeIdValues))
                                \cup {<<UserTokens[1]>>}}
  \cup {DocUserSubs(<<UserTokens[i]>>) : i \in 1..MaxUsers}
  \cup {DocPlural(n) : n \in {"posts", "profiles", "memberTypes"}}
  \cup {DocUnknown, DocUnknownNested, DocUsersProfile, DocUsersMember,
        DocUsersPosts, DocSubs}

(* ------------------------------ actions ------------------------------- *)
Init ==
  /\ store \in Stores
  /\ phase = [r \in Slots |-> "idle"]
  /\ doc = [r \in Slots |-> <<>>]
  /\ pending = [r \in Slots |-> {}]
  /\ resolved = [r \in Slots |-> {}]
  /\ resp = [r \in Slots |-> NoResp]

(* POST /: the handler hands the request's query to graphql(). *)
Request(r, d) ==
  /\ phase[r] = "idle"
  /\ doc' = [doc EXCEPT ![r] = d]
  /\ phase' = [phase EXCEPT ![r] = graphql(d).phase]
  /\ pending' = [pending EXCEPT ![r] = graphql(d).pending]
  /\ resp' = [resp EXCEPT ![r] = graphql(d).resp]
  /\ UNCHANGED <<store, resolved>>

(* A resolver's persistence call returns and its value is completed. *)
LookupReturns(r, t) ==
  /\ phase[r] = "executing"
  /\ t \in pending[r]
  /\ pending' = [pending EXCEPT ![r] = (@ \ {t}) \cup CompleteValue(t, Settle(t.call))]
  /\ resolved' = [resolved EXCEPT ![r] = @ \cup {Entry(t, Settle(t.call), FALSE)}]
  /\ UNCHANGED <<store, phase, doc, resp>>

(* A resolver's persistence call rejects (the store is unavailable); at    *)
(* most MaxFaults calls of one request do.                                *)
Faults(r) == Cardinality({e \in resolved[r] : e.fault})

(* Variant: a rejected call is issued again. *)
LookupFailsRetry(r, t) ==
  /\ phase[r] = "executing"
  /\ t \in pending[r]
  /\ t.call.op # "none"
  /\ pending' = [pending EXCEPT ![r] = (@ \ {t}) \cup {[t EXCEPT !.tries = @ + 1]}]
  /\ UNCHANGED <<store, phase, doc, resp, resolved>>

LookupFails(r, t) ==
  /\ phase[r] = "executing"
  /\ t \in pending[r]
  /\ t.call.op # "none"
  /\ Faults(r) < MaxFaults
  /\ pending' = [pending EXCEPT ![r] = @ \ {t}]
  /\ resolved' = [resolved EXCEPT ![r] = @ \cup {Entry(t, Rejected, TRUE)}]
  /\ UNCHANGED <<store, phase, doc, resp>>

(* Variant: the error list outlives the request. *)
RespondLeaky(r) ==
  /\ phase[r] = "executing"
  /\ pending[r] = {}
  /\ resp' = [resp EXCEPT ![r] =
               [buildResponse(doc[r], resolved[r]) EXCEPT
                  !.errors = @ \cup UNION {resp[s].errors : s \in Slots}]]
  /\ phase' = [phase EXCEPT ![r] = "done"]
  /\ UNCHANGED <<store, doc, pending, resolved>>

(* Every resolver has settled: graphql() resolves with the response. *)
Respond(r) ==
  /\ phase[r] = "executing"
  /\ pending[r] = {}
  /\ resp' = [resp EXCEPT ![r] = buildResponse(doc[r], resolved[r])]
  /\ phase' = [phase EXCEPT ![r] = "done"]
  /\ UNCHANGED <<store, doc, pending, resolved>>

(* Variant: the resolved values are kept after the response. *)
FinishKeeps(r) ==
  /\ phase[r] = "done"
  /\ phase' = [phase EXCEPT ![r] = "idle"]
  /\ doc' = [doc EXCEPT ![r] = <<>>]
  /\ resp' = [resp EXCEPT ![r] = NoResp]
  /\ UNCHANGED <<store, pending, resolved>>

(* The response is sent; nothing of the request is kept. *)
Finish(r) ==
  /\ phase[r] = "done"
  /\ phase' = [phase EXCEPT ![r] = "idle"]
  /\ doc' = [doc EXCEPT ![r] = <<>>]
  /\ resolved' = [resolved EXCEPT ![r] = {}]
  /\ resp' = [resp EXCEPT ![r] = NoResp]
  /\ UNCHANGED <<store, pending>>

Next ==
  \/ \E d \in Docs : Request(1, d)
  \/ \E t \in pending[1] : LookupReturns(1, t)
  \/ Respond(1)
  \/ Finish(1)

Spec == Init /\ [][Next]_vars

NextFaulty ==
  \/ \E d \in Docs : Request(1, d)
  \/ \E t \in pending[1] : LookupReturns(1, t)
  \/ \E t \in pending[1] : LookupFails(1, t)
  \/ Respond(1)
  \/ Finish(1)

SpecFaulty == Init /\ [][NextFaulty]_vars

(* Requests in flight together, each on its own slot, over the            *)
(* single-user stores.                                                    *)
ConcurrentStores == {s \in Stores : Cardinality(s.users) = 1}

ConcurrentDocs ==
  {DocUser(<<UserTokens[1]>>), DocMemberType(<<>>), DocUsersProfile, DocUnknown}

InitConcurrent ==
  /\ store \in ConcurrentStores
  /\ phase = [r \in Slots |-> "idle"]
  /\ doc = [r \in Slots |-> <<>>]
  /\ pending = [r \in Slots |-> {}]
  /\ resolved = [r \in Slots |-> {}]
  /\ resp = [r \in Slots |-> NoResp]

NextConcurrent ==
  \E r \in Slots :
    \/ \E d \in ConcurrentDocs : Request(r, d)
    \/ \E t \in pending[r] : LookupReturns(r, t)
    \/ \E t \in pending[r] : LookupFails(r, t)
    \/ Respond(r)
    \/ Finish(r)

SpecConcurrent == InitConcurrent /\ [][NextConcurrent]_vars

(* ------------------- reading a response and a run --------------------- *)
Front(p) == SubSeq(p, 1, Len(p) - 1)
Last(p) == p[Len(p)]
IdxOf(x) == CHOOSE i \in 1..Len(Idx) : Idx[i] = x

Done(r) == phase[r] = "done"
Has(r, p) == \E x \in resp[r].data : x[1] = p
ValAt(r, p) == (CHOOSE x \in resp[r].data : x[1] = p)[2]
Is(r, p, v) == <<p, v>> \in resp[r].data
ErrPaths(r) == {e.path : e \in resp[r].errors}

(* The ids of the objects of the list at path p. *)
NodeIds(r, p) ==
  {x[2] : x \in {y \in resp[r].data :
                   Len(y[1]) = Len(p) + 2 /\ IsPrefix(p, y[1]) /\ Last(y[1]) = "id"}}

(* The object a relation resolver at path p was invoked on. *)
ParentOf(res, p) ==
  IF \E e \in res : e.path = Front(p)
    THEN EntryAt(res, Front(p)).recs[1]
    ELSE EntryAt(res, Front(Front(p))).recs[IdxOf(Last(Front(p)))]

RecIds(e) == {e.recs[i].id : i \in 1..Len(e.recs)}

(* The response a document yields when it is the only request, its calls  *)
(* at the paths F rejecting: the resolvers run depth first to the end.    *)
RECURSIVE AloneFields(_, _, _, _, _)
AloneFields(ptype, sel, parent, path, F) ==
  UNION { LET out == IF t.path \in F /\ t.call.op # "none" THEN Rejected ELSE Settle(t.call)
          IN {Entry(t, out, t.path \in F /\ t.call.op # "none")} \cup
             UNION { AloneFields(NamedOf(TaskType(t)), t.f.sel, out.recs[i],
                                 IF IsList(TaskType(t)) THEN t.path \o <<Idx[i]>> ELSE t.path, F)
                     : i \in 1..Len(out.recs) }
          : t \in ExecuteFields(ptype, sel, parent, path) }

RunAlone(d, F) ==
  IF validate(d) # {}
    THEN [hasData |-> FALSE, data |-> {}, errors |-> ValidationErrors(validate(d))]
    ELSE buildResponse(d, AloneFields(schema.query, d, RootValue, <<>>, F))

FaultPaths(r) == {e.path : e \in {x \in resolved[r] : x.fault}}

(* ------------------------------- claims ------------------------------- *)
SingularTable(name) ==
  CASE name = "user" -> store.users
    [] name = "post" -> store.posts
    [] name = "profile" -> store.profiles

UuidLookups(r) ==
  {i \in 1..Len(doc[r]) :
     /\ doc[r][i].name \in {"user", "post", "profile"}
     /\ doc[r][i].args # <<>>
     /\ doc[r][i].args[1] # NullLit}

(* C1: a finished user(id), post(id) or profile(id) with a well-formed id  *)
(* yields the stored record with that id (non-null, its id field equal to *)
(* the input) when one exists, and null with no error when none does.     *)
C1_SingularLookup ==
  \A r \in Slots : Done(r) =>
    \A i \in UuidLookups(r) :
      LET f == doc[r][i]
          id == f.args[1]
      IN IF \E rec \in SingularTable(f.name) : rec.id = id
           THEN Is(r, <<f.name>>, "obj") /\ Is(r, <<f.name, "id">>, id)
           ELSE Is(r, <<f.name>>, NullLit) /\ resp[r].errors = {}

C1_Witness ==
  \E r \in Slots : Done(r) /\ \E i \in UuidLookups(r) :
    /\ doc[r][i].name = "profile"
    /\ Is(r, <<"profile", "id">>, doc[r][i].args[1])

UserNodes(r) ==
  {Front(x[1]) : x \in {y \in resp[r].data : y[1] # <<>> /\ Last(y[1]) = "userSubscribedTo"}}

(* C2: in a finished response, for user nodes A and B that carry both     *)
(* fields, A among B's subscribedToUser implies B among A's               *)
(* userSubscribedTo.                                                      *)
C2_InverseRelations ==
  \A r \in Slots : Done(r) =>
    \A pa, pb \in {n \in UserNodes(r) : Has(r, n \o <<"subscribedToUser">>)} :
      ValAt(r, pa \o <<"id">>) \in NodeIds(r, pb \o <<"subscribedToUser">>)
        => ValAt(r, pb \o <<"id">>) \in NodeIds(r, pa \o <<"userSubscribedTo">>)

C2_Witness ==
  \E r \in Slots : Done(r) /\
    \E pa, pb \in {n \in UserNodes(r) : Has(r, n \o <<"subscribedToUser">>)} :
      /\ pa # pb
      /\ ValAt(r, pa \o <<"id">>) \in NodeIds(r, pb \o <<"subscribedToUser">>)
      /\ ValAt(r, pb \o <<"id">>) \notin NodeIds(r, pb \o <<"subscribedToUser">>)

UnknownFieldDocs == {DocUnknown, DocUnknownNested}

(* C3: a request whose query names a field the schema lacks is answered   *)
(* without executing: errors populated, no data, no resolver invoked and  *)
(* no persistence call issued.                                            *)
C3_UnknownFieldRejected ==
  \A r \in Slots : doc[r] \in UnknownFieldDocs =>
    /\ Done(r)
    /\ ~resp[r].hasData /\ resp[r].data = {}
    /\ resp[r].errors # {}
    /\ pending[r] = {} /\ resolved[r] = {}

C3_Witness ==
  \E r \in Slots : Done(r) /\ doc[r] = DocUnknownNested /\ resp[r].errors # {}

NoIdSingular(r) ==
  \E i \in 1..Len(doc[r]) :
    /\ doc[r][i].name \in {"memberType", "user", "post", "profile"}
    /\ doc[r][i].args \in {<<>>, <<NullLit>>}

(* C4: a query selecting a singular root field with no id (or a null id)  *)
(* is rejected before execution: no resolver runs, no call is issued.     *)
C4_IdRequired ==
  \A r \in Slots : NoIdSingular(r) =>
    /\ Done(r) /\ ~resp[r].hasData
    /\ pending[r] = {} /\ resolved[r] = {}

SubscribedToEntries(r) ==
  {e \in resolved[r] : Last(e.path) = "userSubscribedTo"}

(* C5 as stated: userSubscribedTo of U is the set of users V with an edge *)
(* (subscriberId = V, authorId = U).                                      *)
C5_AsTarget ==
  \A r \in Slots : \A e \in SubscribedToEntries(r) :
    RecIds(e) = {v.id : v \in {w \in store.users :
                   [subscriberId |-> w.id, authorId |-> ParentOf(resolved[r], e.path).id]
                     \in store.subs}}

(* C5 amended: userSubscribedTo of U resolves to exactly the users V with *)
(* an edge (subscriberId = U, authorId = V), the empty list when there is *)
(* none, and the response lists exactly them.                             *)
C5_AsSubscriber ==
  \A r \in Slots : \A e \in SubscribedToEntries(r) :
    LET want == {v.id : v \in {w \in store.users :
                   [subscriberId |-> ParentOf(resolved[r], e.path).id, authorId |-> w.id]
                     \in store.subs}}
    IN /\ e.st = "ok" /\ ~e.null /\ RecIds(e) = want
       /\ Done(r) => Is(r, e.path, "list") /\ NodeIds(r, e.path) = want

C5_Witness ==
  \E r \in Slots : Done(r) /\ \E e \in SubscribedToEntries(r) :
    /\ RecIds(e) # {}
    /\ ParentOf(resolved[r], e.path).id \notin RecIds(e)
    /\ NodeIds(r, e.path) = RecIds(e)

UserPostsEntries(r) ==
  {e \in resolved[r] : Last(e.path) = "posts" /\ Len(e.path) > 1}

(* C6: for every user node, at any depth, the posts resolver takes the    *)
(* lookup branch and yields exactly the stored posts of that author; the  *)
(* response carries that list, never null and never an error.             *)
C6_UserPosts ==
  \A r \in Slots : \A e \in UserPostsEntries(r) :
    LET want == {x.id : x \in {y \in store.posts :
                   y.authorId = ParentOf(resolved[r], e.path).id}}
    IN /\ e.st = "ok" /\ ~e.null /\ e.tries = 1 /\ RecIds(e) = want
       /\ Done(r) => /\ Is(r, e.path, "list")
                     /\ NodeIds(r, e.path) = want
                     /\ e.path \notin ErrPaths(r)

C6_Witness ==
  \E r \in Slots : Done(r) /\ \E e \in UserPostsEntries(r) :
    /\ Len(e.path) > 4
    /\ RecIds(e) # {}
    /\ NodeIds(r, e.path) = RecIds(e)
    /\ \E e2 \in UserPostsEntries(r) : RecIds(e2) = {}

NonNullRelation(p) ==
  Len(p) > 1 /\ Last(p) \in {"memberType", "posts", "userSubscribedTo", "subscribedToUser"}

FailedNonNull(r) ==
  {e \in resolved[r] : (e.st = "err" \/ e.null) /\ NonNullRelation(e.path)}

Outside(data, a) == {x \in data : ~IsPrefix(a, x[1])}

RECURSIVE SumTries(_)
SumTries(S) ==
  IF S = {} THEN 0 ELSE LET e == CHOOSE x \in S : TRUE IN e.tries + SumTries(S \ {e})

ProfileEntries(r) == {e \in resolved[r] : Last(e.path) = "profile" /\ Len(e.path) > 1}

(* C8 as stated: users { profile { id } } over N users issues 1 + N       *)
(* persistence calls, also when a lookup fails.                           *)
C8_AlwaysNPlusOne ==
  \A r \in Slots : (Done(r) /\ doc[r] = DocUsersProfile) =>
    SumTries(resolved[r]) = 1 + Cardinality(store.users)

(* C8 amended: every relation resolver invocation issues exactly one call *)
(* and never a second; users { profile { id } } issues one users lookup   *)
(* and one profile lookup per user, failed profile lookups included,      *)
(* and the users lookup alone when that lookup itself fails.              *)
C8_OneCallEach ==
  \A r \in Slots :
    /\ \A t \in pending[r] : Len(t.path) > 1 => t.tries = 1
    /\ \A e \in resolved[r] : Len(e.path) > 1 => e.tries = 1
    /\ \A e1, e2 \in resolved[r] : e1.path = e2.path => e1 = e2
    /\ (Done(r) /\ doc[r] = DocUsersProfile) =>
         LET us == EntryAt(resolved[r], <<"users">>)
             n == IF us.st = "ok" THEN Cardinality(store.users) ELSE 0
         IN /\ us.tries = 1
            /\ Cardinality(ProfileEntries(r)) = n
            /\ SumTries(resolved[r]) = 1 + n

C8_Witness ==
  \E r \in Slots :
    /\ Done(r) /\ doc[r] = DocUsersProfile
    /\ Cardinality(store.users) = MaxUsers
    /\ \E e \in ProfileEntries(r) : e.fault
    /\ SumTries(resolved[r]) = 1 + MaxUsers

Cleared(r) ==
  doc[r] = <<>> /\ pending[r] = {} /\ resolved[r] = {} /\ resp[r] = NoResp

(* C9: no step of any request changes the store, and a slot that is idle  *)
(* holds nothing of the requests it served.                               *)
C9_PureRead ==
  /\ [][store' = store]_vars
  /\ [](\A r \in Slots : phase[r] = "idle" => Cleared(r))

C9_Witness ==
  \E r, s \in Slots :
    /\ Done(r) /\ resp[r].hasData /\ resp[r].errors # {}
    /\ Done(s) /\ ~resp[s].hasData /\ resp[s].errors # {}

(* C10: whatever ran beside it and in whatever order the calls returned,  *)
(* a request's response is the one it yields alone under the same         *)
(* rejected calls.                                                        *)
C10_Isolation ==
  \A r \in Slots : Done(r) => resp[r] = RunAlone(doc[r], FaultPaths(r))

C10_Witness ==
  \E r, s \in Slots :
    /\ Done(r) /\ resp[r].hasData /\ resp[r].errors # {}
    /\ phase[s] = "executing" /\ resolved[s] # {} /\ pending[s] # {}
    /\ FaultPaths(s) = {}

====
